---------------------------- MODULE Spec2Model ----------------------------
(***************************************************************************)
(* Model of the benchmarkff scripts                                        *)
(*   03_analysis/tailed_parameters.py  (outlier parameter analysis)        *)
(*   02_calc/minimize_ffs.py           (force-field minimizer)             *)
(*                                                                         *)
(* Five specifications share the variables of this module:                 *)
(*   SpecT    the read loop of tailed_parameters                           *)
(*   SpecSort full_params.sort(key=natural_keys)                           *)
(*   SpecM    main of tailed_parameters.py                                 *)
(*   SpecMin  main of minimize_ffs.py                                      *)
(*   SpecG    the duplicate removal of get_parameters                      *)
(* Each specification leaves the variables of the others at their idle     *)
(* values.                                                                 *)
(***************************************************************************)
EXTENDS Integers, Sequences, FiniteSets

VARIABLES
    \* ---- tailed_parameters (read loop) ----
    tpc,          \* "idle" | "loop"
    cutoff,       \* the cutoff argument, in tenths
    confs,        \* the conformers read so far, in iteration order
    all_smiles,   \* list of SMILES appended per conformer
    mols_all,     \* OrderedDict SMILES -> {'structure'}
    mols_out,     \* OrderedDict SMILES -> {'metric', 'structure'}
    count_all,
    count_out,
    \* ---- full_params.sort(key=natural_keys) ----
    spc,          \* "idle" | "unsorted" | "sorted"
    sort_in,      \* list(set(params_id_all.keys())), in the set's order
    sort_out,     \* the list after .sort(key=natural_keys)
    \* ---- main of tailed_parameters.py ----
    mpc,              \* "idle" | "start" | "counted" | "fractions" | "step2"
                      \* | "step3" | "plot" | "done" | "error"
    params_id_all,    \* data_all['params_id']: parameter -> molecules
    params_id_out,    \* data_out['params_id']
    uniq_n_all,       \* len(data_all['params_mol'])
    uniq_n_out,       \* len(data_out['params_mol'])
    full_params,
    nmols_cnt_all,
    nmols_cnt_out,
    data_file,        \* the rows of params_<metric>.dat
    fraction_cnt_all,
    fraction_cnt_out,
    fraction_ratio,
    max_ratio,
    plot_t,           \* position of the plot loop in ['a','b','i','n','t']
    plots,            \* the calls of plot_by_paramtype so far
    \* ---- main of minimize_ffs.py ----
    npc,              \* "idle" | "open" | "charge" | "retry" | "conf" | "close"
                      \* | "done" | "FileNotFoundError" | "FileExistsError"
                      \* | "Fatal" | "raised"
    minimizer,        \* the minimizer argument
    infile_ok,        \* ifs.open(infile) succeeds
    outfile_ok,       \* ofs.open(outfile) succeeds
    outfile,          \* the output file: [exists, content]
    mols,             \* the molecules of the input: the number of conformers of each
    mi,               \* the molecule of the current iteration
    cj,               \* the conformer of the current iteration
    charge_attempts,  \* calls of charge_mol per molecule
    results,          \* what the engine reported for each conformer minimized
    log,              \* the messages printed
    \* ---- get_parameters: duplicate removal ----
    gpc,              \* "idle" | "smiles" | "dups" | "delete" | "done" | "IndexError"
    iso_smiles,       \* molecule.to_smiles() of each molecule of off_mols
    smi_dict,         \* dict(zip(iso_smiles, smi_list))
    idx_todo,         \* what is left of sorted(idx_of_duplicates, reverse=True)
    off_mols          \* the molecules, each named by its position in mols_dict

varsT == <<tpc, cutoff, confs, all_smiles, mols_all, mols_out, count_all, count_out>>

varsS == <<spc, sort_in, sort_out>>

varsM == <<mpc, params_id_all, params_id_out, uniq_n_all, uniq_n_out,
           full_params, nmols_cnt_all, nmols_cnt_out, data_file,
           fraction_cnt_all, fraction_cnt_out, fraction_ratio, max_ratio,
           plot_t, plots>>

varsN == <<npc, minimizer, infile_ok, outfile_ok, outfile, mols, mi, cj,
           charge_attempts, results, log>>

varsG == <<gpc, iso_smiles, smi_dict, idx_todo, off_mols>>

vars == <<varsT, varsS, varsM, varsN, varsG>>

-----------------------------------------------------------------------------
(* Generic helpers *)

Range(s) == { s[k] : k \in 1..Len(s) }

\* An OrderedDict: the keys in insertion order and the value of each key.
EmptyDict == [keys |-> <<>>, val |-> <<>>]

Keys(d) == Range(d.keys)

\* d[k] = v : a new key is appended, an existing key keeps its position and
\* its value is overwritten.
DictSet(d, k, v) ==
    [keys |-> IF k \in Keys(d) THEN d.keys ELSE Append(d.keys, k),
     val  |-> [x \in Keys(d) \cup {k} |-> IF x = k THEN v ELSE d.val[x]]]

-----------------------------------------------------------------------------
(* The values of each specification's variables while another one runs *)

IdleT ==
    /\ tpc = "idle"
    /\ cutoff = 0
    /\ confs = <<>>
    /\ all_smiles = <<>>
    /\ mols_all = EmptyDict
    /\ mols_out = EmptyDict
    /\ count_all = 0
    /\ count_out = 0

IdleS ==
    /\ spc = "idle"
    /\ sort_in = <<>>
    /\ sort_out = <<>>

\* a float that has not been computed
NoValue == [n |-> 0, d |-> 1]

IdleM ==
    /\ mpc = "idle"
    /\ params_id_all = <<>>
    /\ params_id_out = <<>>
    /\ uniq_n_all = 0
    /\ uniq_n_out = 0
    /\ full_params = <<>>
    /\ nmols_cnt_all = <<>>
    /\ nmols_cnt_out = <<>>
    /\ data_file = <<>>
    /\ fraction_cnt_all = <<>>
    /\ fraction_cnt_out = <<>>
    /\ fraction_ratio = <<>>
    /\ max_ratio = NoValue
    /\ plot_t = 0
    /\ plots = <<>>

IdleN ==
    /\ npc = "idle"
    /\ minimizer = "none"
    /\ infile_ok = FALSE
    /\ outfile_ok = FALSE
    /\ outfile = [exists |-> FALSE, content |-> <<>>]
    /\ mols = <<>>
    /\ mi = 0
    /\ cj = 0
    /\ charge_attempts = <<>>
    /\ results = <<>>
    /\ log = <<>>

IdleG ==
    /\ gpc = "idle"
    /\ iso_smiles = <<>>
    /\ smi_dict = EmptyDict
    /\ idx_todo = <<>>
    /\ off_mols = <<>>

-----------------------------------------------------------------------------
(* Strings are sequences of one-character strings. *)

\* the characters of the parameter identifiers, in code-point order
Alphabet == <<"0", "1", "2", "3", "4", "5", "6", "7", "8", "9",
              "a", "b", "c", "i", "n", "t">>
Digits == {"0", "1", "2", "3", "4", "5", "6", "7", "8", "9"}

Ord(c) == CHOOSE k \in 1..Len(Alphabet) : Alphabet[k] = c
DigitVal(c) == Ord(c) - 1

IsDigit(c) == c \in Digits

\* str.isdigit(): non-empty and all characters are digits
IsDigitStr(s) == s # <<>> /\ \A k \in 1..Len(s) : IsDigit(s[k])

\* int(s) of a string of decimal digits
RECURSIVE IntOf(_)
IntOf(s) ==
    IF s = <<>> THEN 0
    ELSE 10 * IntOf(SubSeq(s, 1, Len(s) - 1)) + DigitVal(s[Len(s)])

\* str < str : lexicographic by code point, a proper prefix is smaller
RECURSIVE StrLess(_, _)
StrLess(a, b) ==
    IF a = <<>> THEN b # <<>>
    ELSE IF b = <<>> THEN FALSE
    ELSE IF a[1] = b[1] THEN StrLess(Tail(a), Tail(b))
    ELSE Ord(a[1]) < Ord(b[1])

\* length of the longest prefix of text whose characters are all digits (d =
\* TRUE) or all non-digits (d = FALSE)
RECURSIVE RunLen(_, _)
RunLen(text, d) ==
    IF text = <<>> \/ IsDigit(text[1]) # d THEN 0
    ELSE 1 + RunLen(Tail(text), d)

\* re.split(r'(\d+)', text): non-digit piece, digit run, non-digit piece, ...
\* The list starts and ends with a (possibly empty) non-digit piece.
RECURSIVE ReSplit(_)
ReSplit(text) ==
    LET n    == RunLen(text, FALSE)
        rest == SubSeq(text, n + 1, Len(text))
    IN  IF rest = <<>> THEN << SubSeq(text, 1, n) >>
        ELSE LET m == RunLen(rest, TRUE)
             IN  << SubSeq(text, 1, n), SubSeq(rest, 1, m) >>
                   \o ReSplit(SubSeq(rest, m + 1, Len(rest)))

\* atoi(text): int(text) if text.isdigit() else text
atoi(text) ==
    IF IsDigitStr(text) THEN [isint |-> TRUE,  n |-> IntOf(text), s |-> <<>>]
                        ELSE [isint |-> FALSE, n |-> 0,           s |-> text]

\* a sort key that is the text itself: plain lexical order
lexical_keys(text) == << [isint |-> FALSE, n |-> 0, s |-> text] >>

\* natural_keys(text): [ atoi(c) for c in re.split(r'(\d+)', text) ]
natural_keys(text) ==
    LET pieces == ReSplit(text)
    IN  [k \in 1..Len(pieces) |-> atoi(pieces[k])]

\* x < y for two elements of a key. Python raises TypeError for int < str:
\* the case is left undefined.
ElemLess(x, y) ==
    CASE x.isint /\ y.isint         -> x.n < y.n
      [] ~x.isint /\ ~y.isint       -> StrLess(x.s, y.s)

\* list < list : the first differing element decides, a proper prefix is
\* smaller
RECURSIVE KeyLess(_, _)
KeyLess(k1, k2) ==
    IF k1 = <<>> THEN k2 # <<>>
    ELSE IF k2 = <<>> THEN FALSE
    ELSE IF k1[1] = k2[1] THEN KeyLess(Tail(k1), Tail(k2))
    ELSE ElemLess(k1[1], k2[1])

\* list.sort(key=natural_keys): a stable sort. x goes after every element
\* whose key is not greater than its own.
InsertStable(sorted, x) ==
    LET k == Cardinality({ i \in 1..Len(sorted) :
                 ~KeyLess(natural_keys(x), natural_keys(sorted[i])) })
    IN  SubSeq(sorted, 1, k) \o <<x>> \o SubSeq(sorted, k + 1, Len(sorted))

RECURSIVE SortNatural(_)
SortNatural(list) ==
    IF list = <<>> THEN <<>>
    ELSE InsertStable(SortNatural(SubSeq(list, 1, Len(list) - 1)), list[Len(list)])

\* list(set(...)): the elements of the set, each once, in an order the hash
\* table chooses
RECURSIVE Orders(_)
Orders(S) ==
    IF S = {} THEN { <<>> }
    ELSE UNION { { <<x>> \o l : l \in Orders(S \ {x}) } : x \in S }

-----------------------------------------------------------------------------
(* full_params.sort(key=natural_keys) on its own *)

MaxSortLen == 3

a1  == <<"a", "1">>
a01 == <<"a", "0", "1">>
a2  == <<"a", "2">>
a10 == <<"a", "1", "0">>
b1  == <<"b", "1">>
b2  == <<"b", "2">>
c1  == <<"c", "1">>
i5  == <<"i", "5">>
n4  == <<"n", "4">>
t3  == <<"t", "3">>

SortIDs == {a1, a01, a2, a10, b2, t3}

InitSort ==
    /\ spc = "unsorted"
    /\ \E S \in SUBSET SortIDs :
          /\ Cardinality(S) <= MaxSortLen
          /\ sort_in \in Orders(S)
    /\ sort_out = <<>>
    /\ IdleT
    /\ IdleM
    /\ IdleN
    /\ IdleG

SortParams ==
    /\ spc = "unsorted"
    /\ sort_out' = SortNatural(sort_in)
    /\ spc' = "sorted"
    /\ UNCHANGED <<sort_in>>
    /\ UNCHANGED <<varsT, varsM, varsN, varsG>>

NextSort == SortParams

SpecSort == InitSort /\ [][NextSort]_vars

-----------------------------------------------------------------------------
(* tailed_parameters: the read loop *)

MaxConfs == 4

Smiles  == {"A", "B", "C"}
\* metric values and cutoffs in tenths (0.5, 2.0, 3.0; 1.0, 2.0)
Metrics == {5, 20, 30}
Cutoffs == {10, 20}

InitT ==
    /\ tpc = "loop"
    /\ cutoff \in Cutoffs
    /\ confs = <<>>
    /\ all_smiles = <<>>
    /\ mols_all = EmptyDict
    /\ mols_out = EmptyDict
    /\ count_all = 0
    /\ count_out = 0
    /\ IdleS
    /\ IdleM
    /\ IdleN
    /\ IdleG

\* if value >= cutoff
IsOutlierStrict(value, c) == value > c

IsOutlier(value, c) == value >= c

\* count_out += 1 / count_all += 1
BumpIfNew(count, d, smiles) == IF smiles \in Keys(d) THEN count ELSE count + 1

Bump(count, d, smiles) == count + 1

\* One iteration of "for mol in mols: for conf in mol.GetConfs()": the
\* conformer read is number Len(confs)+1, its structure handle is that number.
ReadConf(smiles, value) ==
    /\ tpc = "loop"
    /\ Len(confs) < MaxConfs
    /\ LET id == Len(confs) + 1 IN
       /\ IF IsOutlier(value, cutoff)
          THEN /\ mols_out' = DictSet(mols_out, smiles,
                                      [metric |-> value, structure |-> id])
               /\ count_out' = Bump(count_out, mols_out, smiles)
          ELSE UNCHANGED <<mols_out, count_out>>
       /\ mols_all' = DictSet(mols_all, smiles, [structure |-> id])
       /\ all_smiles' = Append(all_smiles, smiles)
       /\ count_all' = Bump(count_all, mols_all, smiles)
       /\ confs' = Append(confs, [smiles |-> smiles, value |-> value])
    /\ UNCHANGED <<tpc, cutoff>>
    /\ UNCHANGED <<varsS, varsM, varsN, varsG>>

NextT == \E smiles \in Smiles, value \in Metrics : ReadConf(smiles, value)

SpecT == InitT /\ [][NextT]_vars

-----------------------------------------------------------------------------
(* Claims about the read loop *)

\* indices of the conformers read so far with the given SMILES
ConfsOf(s) == { k \in 1..Len(confs) : confs[k].smiles = s }
OutConfsOf(s) == { k \in ConfsOf(s) : confs[k].value >= cutoff }
Last(S) == CHOOSE k \in S : \A j \in S : j <= k
NoDup(s) == \A i, j \in 1..Len(s) : s[i] = s[j] => i = j

\* C1: after the read loop every record of mols_out has a stored metric >=
\* cutoff, every conformer with metric >= cutoff has its SMILES as a key of
\* mols_out, a SMILES is a key of mols_out only if some conformer with that
\* SMILES had metric >= cutoff, and every key of mols_out is a key of mols_all.
C1_PartitionSoundComplete ==
    tpc = "loop" =>
        /\ \A s \in Keys(mols_out) : mols_out.val[s].metric >= cutoff
        /\ \A k \in 1..Len(confs) :
              confs[k].value >= cutoff => confs[k].smiles \in Keys(mols_out)
        /\ \A s \in Keys(mols_out) : OutConfsOf(s) # {}
        /\ Keys(mols_out) \subseteq Keys(mols_all)

\* a conformer exactly at the cutoff and one below it have been read
C1_Witness ==
    /\ tpc = "loop"
    /\ \E k \in 1..Len(confs) : confs[k].value = cutoff
    /\ \E k \in 1..Len(confs) : confs[k].value < cutoff
    /\ Keys(mols_out) # {}
    /\ Keys(mols_out) # Keys(mols_all)

\* C2: count_all is the number of conformers processed and count_out the
\* number of conformers with metric >= cutoff (per conformer, not per unique
\* SMILES); mols_all and mols_out hold one entry per distinct SMILES, the one
\* written last under that key; so the counts are at least the numbers of
\* keys. For SMILES [A,A,B,C], metrics [2.0,0.5,3.0,0.5], cutoff 1.0: mols_all
\* keys {A,B,C}, count_all = 4, mols_out keys {A,B} with A's metric 2.0,
\* count_out = 2.
C2_Scenario ==
    /\ cutoff = 10
    /\ confs = << [smiles |-> "A", value |-> 20], [smiles |-> "A", value |-> 5],
                  [smiles |-> "B", value |-> 30], [smiles |-> "C", value |-> 5] >>

C2_CountsAndLastWrite ==
    tpc = "loop" =>
        /\ count_all = Len(confs)
        /\ count_out = Cardinality({ k \in 1..Len(confs) : confs[k].value >= cutoff })
        /\ NoDup(mols_all.keys) /\ NoDup(mols_out.keys)
        /\ Keys(mols_all) = { confs[k].smiles : k \in 1..Len(confs) }
        /\ \A s \in Keys(mols_all) : mols_all.val[s].structure = Last(ConfsOf(s))
        /\ \A s \in Keys(mols_out) :
              /\ mols_out.val[s].structure = Last(OutConfsOf(s))
              /\ mols_out.val[s].metric = confs[Last(OutConfsOf(s))].value
        /\ count_all >= Len(mols_all.keys)
        /\ count_out >= Len(mols_out.keys)
        /\ C2_Scenario =>
              /\ mols_all.keys = <<"A", "B", "C">>
              /\ count_all = 4
              /\ mols_out.keys = <<"A", "B">>
              /\ mols_out.val["A"].metric = 20
              /\ count_out = 2

C2_Witness == tpc = "loop" /\ C2_Scenario /\ count_all > Len(mols_all.keys)

-----------------------------------------------------------------------------
(* Claims about the natural sort *)

\* identifiers of the form <letter><number>
IsLetterNumber(id) ==
    /\ Len(id) >= 2
    /\ ~IsDigit(id[1])
    /\ \A k \in 2..Len(id) : IsDigit(id[k])

\* the numeric index of such an identifier, digit by digit
RECURSIVE DecimalValue(_, _)
DecimalValue(id, upto) ==
    IF upto < 2 THEN 0 ELSE 10 * DecimalValue(id, upto - 1) + DigitVal(id[upto])

IndexOf(id) == DecimalValue(id, Len(id))

PosIn(list, x) == CHOOSE k \in 1..Len(list) : list[k] = x

\* C7: sorting with key natural_keys compares digit runs numerically and
\* non-digit runs lexically and is stable: the result is a rearrangement of
\* the input in which identifiers <letter><number> are ordered by letter, then
\* by numeric index, identifiers that compare equal keep their input order,
\* "a2" precedes "a10", and ["a10","a2","a1"] sorts to ["a1","a2","a10"].
C7_NaturalSort ==
    spc = "sorted" =>
        /\ Len(sort_out) = Len(sort_in)
        /\ Range(sort_out) = Range(sort_in)
        /\ \A i, j \in 1..Len(sort_out) :
              (i < j /\ IsLetterNumber(sort_out[i]) /\ IsLetterNumber(sort_out[j])) =>
                 \/ Ord(sort_out[i][1]) < Ord(sort_out[j][1])
                 \/ /\ sort_out[i][1] = sort_out[j][1]
                    /\ IndexOf(sort_out[i]) < IndexOf(sort_out[j])
                 \/ /\ sort_out[i][1] = sort_out[j][1]
                    /\ IndexOf(sort_out[i]) = IndexOf(sort_out[j])
                    /\ PosIn(sort_in, sort_out[i]) < PosIn(sort_in, sort_out[j])
        /\ ({a2, a10} \subseteq Range(sort_out) =>
               PosIn(sort_out, a2) < PosIn(sort_out, a10))
        /\ (sort_in = <<a10, a2, a1>> => sort_out = <<a1, a2, a10>>)

\* the documented example has been sorted
C7_Witness == spc = "sorted" /\ sort_in = <<a10, a2, a1>> /\ sort_out = <<a1, a2, a10>>

\* two identifiers with the same key ("a01", "a1") kept their input order
C7_WitnessStable ==
    /\ spc = "sorted"
    /\ {a1, a01} \subseteq Range(sort_in)
    /\ PosIn(sort_in, a01) < PosIn(sort_in, a1)
    /\ PosIn(sort_out, a01) < PosIn(sort_out, a1)

-----------------------------------------------------------------------------
(* main of tailed_parameters.py *)

MaxMols == 3

\* the identifiers the parameterization engine may assign
ParamIDs == {a2, a10, b1}

\* for t in ['a', 'b', 'i', 'n', 't']
PlotTypes == <<"a", "b", "i", "n", "t">>

\* get_molecule_parameterIDs, parameters_by_ID: every parameter used by one
\* of the molecules, with the molecules that use it. assigned[m] is the set
\* of parameters the force field assigns to molecule m.
ParametersByID(assigned, molset) ==
    LET used == UNION { assigned[m] : m \in molset }
    IN  [p \in used |-> { m \in molset : p \in assigned[m] }]

\* The documented scenarios: counts all = [1,1,5], out = [1,0,1] for the
\* parameters a1, a2, a10; and one parameter of each category (and c1, of
\* none) used by two molecules, both outliers.
Scenarios ==
    { [n |-> 5, out |-> {1},
       assigned |-> <<{a1, a10}, {a2, a10}, {a10}, {a10}, {a10}>>],
      [n |-> 2, out |-> {1, 2},
       assigned |-> <<{a1, b2, t3, n4, i5, c1}, {a1, b2, t3, n4, i5, c1}>>] }

\* data_all, data_out as tailed_parameters (or the pickle) delivers them: the
\* molecules 1..n of the full set, of which the molecules `out` are outliers.
\* main uses the molecule sets only through len(), so the molecules are
\* numbered with the outliers first.
LoadData(n, assigned, out) ==
    /\ mpc = "start"
    /\ params_id_all = ParametersByID(assigned, 1..n)
    /\ params_id_out = ParametersByID(assigned, out)
    /\ uniq_n_all = n
    /\ uniq_n_out = Cardinality(out)
    /\ full_params = <<>>
    /\ nmols_cnt_all = <<>>
    /\ nmols_cnt_out = <<>>
    /\ data_file = <<>>
    /\ fraction_cnt_all = <<>>
    /\ fraction_cnt_out = <<>>
    /\ fraction_ratio = <<>>
    /\ max_ratio = NoValue
    /\ plot_t = 0
    /\ plots = <<>>

InitM ==
    /\ \/ \E n \in 0..MaxMols :
             \E assigned \in [1..n -> SUBSET ParamIDs], k \in 0..n :
                LoadData(n, assigned, 1..k)
       \/ \E sc \in Scenarios : LoadData(sc.n, sc.assigned, sc.out)
    /\ IdleT
    /\ IdleS
    /\ IdleN
    /\ IdleG

\* ---- floats: n/d; d = 0 is nan (n = 0) or inf (n > 0) ----

\* x / y of two numbers
Frac(x, y) == [n |-> x, d |-> y]

\* x / y of two floats
Div(x, y) == [n |-> x.n * y.d, d |-> x.d * y.n]

IsNaN(x) == x.d = 0 /\ x.n = 0

\* np.nonzero's test: nan and inf are not zero
IsNonzero(x) == x.d = 0 \/ x.n # 0

FloatLeq(x, y) == x.n * y.d <= y.n * x.d

\* np.max of a non-empty array: nan if any element is nan
NpMax(arr) ==
    IF \E k \in 1..Len(arr) : IsNaN(arr[k])
    THEN [n |-> 0, d |-> 0]
    ELSE arr[CHOOSE k \in 1..Len(arr) : \A j \in 1..Len(arr) : FloatLeq(arr[j], arr[k])]

\* ---- arrays ----

\* the elements of seq at the indices in I, in ascending index order
RECURSIVE KeepIdx(_, _)
KeepIdx(seq, I) ==
    IF seq = <<>> THEN <<>>
    ELSE LET m     == Len(seq)
             front == KeepIdx(SubSeq(seq, 1, m - 1), I)
         IN  IF m \in I THEN Append(front, seq[m]) ELSE front

\* an index set as an ascending index array
IdxArray(I, len) == KeepIdx([k \in 1..len |-> k], I)

\* np.delete(arr, obj)
NpDelete(arr, obj) == KeepIdx(arr, (1..Len(arr)) \ obj)

\* arr[inds] for an index array
Take(arr, inds) == [k \in 1..Len(inds) |-> arr[inds[k]]]

\* list.index(x): the first position of x
ListIndex(list, x) ==
    CHOOSE k \in 1..Len(list) : list[k] = x /\ \A j \in 1..(k - 1) : list[j] # x

\* ---- count_mols_by_param ----

\* len(params_id_out[p]) without the except clause
CntOutNoCatch(pio, p) ==
    IF p \in DOMAIN pio THEN [err |-> FALSE, n |-> Cardinality(pio[p])]
                        ELSE [err |-> TRUE,  n |-> 0]

\* try: cnt_out = len(params_id_out[p]) / except KeyError: cnt_out = 0
CntOut(pio, p) ==
    IF p \in DOMAIN pio THEN [err |-> FALSE, n |-> Cardinality(pio[p])]
                        ELSE [err |-> FALSE, n |-> 0]

count_mols_by_param(fp, pia, pio) ==
    LET outs == [i \in 1..Len(fp) |-> CntOut(pio, fp[i])]
    IN  [err |-> \E i \in 1..Len(fp) : outs[i].err,
         all |-> [i \in 1..Len(fp) |-> Cardinality(pia[fp[i]])],
         out |-> [i \in 1..Len(fp) |-> outs[i].n]]

\* ---- the data file ----

Header == <<"# param", "nmols_out", "nmols_all">>

\* the rows with the two count columns exchanged
WriteDataSwapped(fp, cnt_out, cnt_all, uout, uall) ==
    << Header, <<"NA_total", uall, uout>> >>
      \o [i \in 1..Len(fp) |-> <<fp[i], cnt_all[i], cnt_out[i]>>]

\* np.column_stack((full_params, nmols_cnt_out, nmols_cnt_all)) under the
\* header and the NA_total row
WriteData(fp, cnt_out, cnt_all, uout, uall) ==
    << Header, <<"NA_total", uout, uall>> >>
      \o [i \in 1..Len(fp) |-> <<fp[i], cnt_out[i], cnt_all[i]>>]

\* lines 265-283: sort the parameter list, count, write the data file
CountAndWrite ==
    /\ mpc = "start"
    /\ \E listed \in Orders(DOMAIN params_id_all) :
        \E sorted \in { SortNatural(listed) } :
          \E cnt \in { count_mols_by_param(sorted, params_id_all, params_id_out) } :
              /\ full_params' = sorted
              /\ IF cnt.err
                 THEN /\ mpc' = "KeyError"
                      /\ UNCHANGED <<nmols_cnt_all, nmols_cnt_out, data_file>>
                 ELSE /\ mpc' = "counted"
                      /\ nmols_cnt_all' = cnt.all
                      /\ nmols_cnt_out' = cnt.out
                      /\ data_file' = WriteData(sorted, cnt.out, cnt.all,
                                                uniq_n_out, uniq_n_all)
    /\ UNCHANGED <<params_id_all, params_id_out, uniq_n_all, uniq_n_out,
                   fraction_cnt_all, fraction_cnt_out, fraction_ratio,
                   max_ratio, plot_t, plots>>
    /\ UNCHANGED <<varsT, varsS, varsN, varsG>>

\* lines 286-287
Fractions ==
    /\ mpc = "counted"
    /\ fraction_cnt_all' = [i \in 1..Len(nmols_cnt_all) |->
                               Frac(nmols_cnt_all[i], uniq_n_all)]
    /\ fraction_cnt_out' = [i \in 1..Len(nmols_cnt_out) |->
                               Frac(nmols_cnt_out[i], uniq_n_out)]
    /\ mpc' = "fractions"
    /\ UNCHANGED <<params_id_all, params_id_out, uniq_n_all, uniq_n_out,
                   full_params, nmols_cnt_all, nmols_cnt_out, data_file,
                   fraction_ratio, max_ratio, plot_t, plots>>
    /\ UNCHANGED <<varsT, varsS, varsN, varsG>>

\* the indices with one molecule in either set
ones_either(cnt_all, cnt_out) ==
    { i \in 1..Len(cnt_all) : cnt_all[i] = 1 } \cup { i \in 1..Len(cnt_out) : cnt_out[i] = 1 }

\* np.intersect1d(np.where(nmols_cnt_all == 1)[0], np.where(nmols_cnt_out == 1)[0])
ones_both(cnt_all, cnt_out) ==
    { i \in 1..Len(cnt_all) : cnt_all[i] = 1 } \cap { i \in 1..Len(cnt_out) : cnt_out[i] = 1 }

\* lines 292-297 with fraction_cnt_all left as it is
Step2OutOnly ==
    /\ mpc = "fractions"
    /\ LET ones == ones_both(nmols_cnt_all, nmols_cnt_out)
       IN  /\ fraction_cnt_out' = NpDelete(fraction_cnt_out, ones)
           /\ full_params' = KeepIdx(full_params, { i \in 1..Len(full_params) : i \notin ones })
    /\ mpc' = "step2"
    /\ UNCHANGED <<params_id_all, params_id_out, uniq_n_all, uniq_n_out,
                   nmols_cnt_all, nmols_cnt_out, data_file, fraction_cnt_all,
                   fraction_ratio, max_ratio, plot_t, plots>>
    /\ UNCHANGED <<varsT, varsS, varsN, varsG>>

\* lines 292-297
Step2 ==
    /\ mpc = "fractions"
    /\ LET ones == ones_both(nmols_cnt_all, nmols_cnt_out)
       IN  /\ fraction_cnt_all' = NpDelete(fraction_cnt_all, ones)
           /\ fraction_cnt_out' = NpDelete(fraction_cnt_out, ones)
           /\ full_params' = KeepIdx(full_params, { i \in 1..Len(full_params) : i \notin ones })
    /\ mpc' = "step2"
    /\ UNCHANGED <<params_id_all, params_id_out, uniq_n_all, uniq_n_out,
                   nmols_cnt_all, nmols_cnt_out, data_file,
                   fraction_ratio, max_ratio, plot_t, plots>>
    /\ UNCHANGED <<varsT, varsS, varsN, varsG>>

\* np.nonzero(fraction_cnt_out)[0]
NpNonzero(arr) == IdxArray({ i \in 1..Len(arr) : IsNonzero(arr[i]) }, Len(arr))

\* the parameter list left as it is
Step3ParamsUnfiltered(fp, nonzero_inds) == fp

\* [full_params[i] for i in nonzero_inds[0]]
Step3Params(fp, nonzero_inds) == Take(fp, nonzero_inds)

\* lines 300-303
Step3 ==
    /\ mpc = "step2"
    /\ LET nonzero_inds == NpNonzero(fraction_cnt_out)
       IN  /\ fraction_cnt_out' = Take(fraction_cnt_out, nonzero_inds)
           /\ fraction_cnt_all' = Take(fraction_cnt_all, nonzero_inds)
           /\ full_params' = Step3Params(full_params, nonzero_inds)
    /\ mpc' = "step3"
    /\ UNCHANGED <<params_id_all, params_id_out, uniq_n_all, uniq_n_out,
                   nmols_cnt_all, nmols_cnt_out, data_file,
                   fraction_ratio, max_ratio, plot_t, plots>>
    /\ UNCHANGED <<varsT, varsS, varsN, varsG>>

\* lines 306-307; np.max of an empty array raises ValueError
Ratio ==
    /\ mpc = "step3"
    /\ LET ratio == [i \in 1..Len(fraction_cnt_out) |->
                        Div(fraction_cnt_out[i], fraction_cnt_all[i])]
       IN  /\ fraction_ratio' = ratio
           /\ IF ratio = <<>>
              THEN mpc' = "ValueError" /\ UNCHANGED <<max_ratio, plot_t>>
              ELSE mpc' = "plot" /\ max_ratio' = NpMax(ratio) /\ plot_t' = 1
    /\ UNCHANGED <<params_id_all, params_id_out, uniq_n_all, uniq_n_out,
                   full_params, nmols_cnt_all, nmols_cnt_out, data_file,
                   fraction_cnt_all, fraction_cnt_out, plots>>
    /\ UNCHANGED <<varsT, varsS, varsN, varsG>>

\* i.startswith(t)
StartsWith(id, t) == id # <<>> /\ id[1] = t

\* the positions 1..k of the selected parameters within the selection
PlotIndsPositional(fp, t) ==
    [k \in 1..Cardinality({ i \in 1..Len(fp) : StartsWith(fp[i], t) }) |-> k]

\* [full_params.index(i) for i in full_params if i.startswith(t)]
PlotInds(fp, t) ==
    LET sel == KeepIdx(fp, { i \in 1..Len(fp) : StartsWith(fp[i], t) })
    IN  [k \in 1..Len(sel) |-> ListIndex(fp, sel[k])]

\* lines 311-318: one iteration of the plot loop. plot_by_paramtype is the
\* rendering boundary; the call is recorded with its arguments.
Plot ==
    /\ mpc = "plot"
    /\ LET t               == PlotTypes[plot_t]
           plot_inds       == PlotInds(full_params, t)
           fraction_subset == Take(fraction_ratio, plot_inds)
           label_subset    == Take(full_params, plot_inds)
       IN  plots' = Append(plots, [prefix |-> t, max_ratio |-> max_ratio,
                                   labels |-> label_subset,
                                   plot_data |-> fraction_subset])
    /\ IF plot_t = Len(PlotTypes)
       THEN mpc' = "done" /\ UNCHANGED plot_t
       ELSE plot_t' = plot_t + 1 /\ UNCHANGED mpc
    /\ UNCHANGED <<params_id_all, params_id_out, uniq_n_all, uniq_n_out,
                   full_params, nmols_cnt_all, nmols_cnt_out, data_file,
                   fraction_cnt_all, fraction_cnt_out, fraction_ratio, max_ratio>>
    /\ UNCHANGED <<varsT, varsS, varsN, varsG>>

NextM == CountAndWrite \/ Fractions \/ Step2 \/ Step3 \/ Ratio \/ Plot

SpecM == InitM /\ [][NextM]_vars

-----------------------------------------------------------------------------
(* Claims about main of tailed_parameters.py *)

\* the number of molecules of each set that use parameter p
UsedByAll(p) == Cardinality(params_id_all[p])
UsedByOut(p) == IF p \in DOMAIN params_id_out THEN Cardinality(params_id_out[p]) ELSE 0

\* the parameter list before any filtering, as listed in the data file
Listed == [k \in 1..(Len(data_file) - 2) |-> data_file[k + 2][1]]

SingleInBoth(p) == UsedByAll(p) = 1 /\ UsedByOut(p) = 1

AfterStep2 == KeepIdx(Listed, { i \in 1..Len(Listed) : ~SingleInBoth(Listed[i]) })

AfterStep3 == KeepIdx(AfterStep2, { i \in 1..Len(AfterStep2) : UsedByOut(AfterStep2[i]) >= 1 })

FractionsOf(list) ==
    [all |-> [i \in 1..Len(list) |-> Frac(UsedByAll(list[i]), uniq_n_all)],
     out |-> [i \in 1..Len(list) |-> Frac(UsedByOut(list[i]), uniq_n_out)]]

Written == mpc \in {"counted", "fractions", "step2", "step3", "plot", "done", "ValueError"}
Filtered2 == mpc \in {"step2", "step3", "plot", "done", "ValueError"}
Filtered3 == mpc \in {"step3", "plot", "done", "ValueError"}
RatioDone == mpc \in {"plot", "done", "ValueError"}

C4_Step3RemovesZeroOutlier ==
    Filtered3 =>
        /\ full_params = AfterStep3
        /\ (RatioDone /\ uniq_n_out >= 1) =>
              /\ Len(fraction_ratio) = Len(full_params)
              /\ \A i \in 1..Len(full_params) :
                    UsedByOut(full_params[i]) >= 1 /\ UsedByAll(full_params[i]) >= 1

\* C5: after step 2, after step 3 and after the ratio computation the
\* parameter list, fraction_cnt_all and fraction_cnt_out (and fraction_ratio
\* once computed) have the same length and entry i of each belongs to the
\* parameter at entry i of the parameter list.
C5_AlignedArrays ==
    /\ Filtered2 =>
          /\ Len(fraction_cnt_all) = Len(full_params)
          /\ Len(fraction_cnt_out) = Len(full_params)
          /\ fraction_cnt_all = FractionsOf(full_params).all
          /\ fraction_cnt_out = FractionsOf(full_params).out
    /\ RatioDone =>
          /\ Len(fraction_ratio) = Len(full_params)
          /\ \A i \in 1..Len(full_params) :
                fraction_ratio[i] = Div(FractionsOf(full_params).out[i],
                                        FractionsOf(full_params).all[i])

\* step 2 and step 3 have each removed a parameter and one is left
C5_Witness ==
    /\ mpc = "done"
    /\ Len(Listed) = 3
    /\ Len(AfterStep2) = 2
    /\ Len(full_params) = 1
    /\ Len(fraction_ratio) = 1

\* C6: count_mols_by_param returns two arrays as long as the parameter list;
\* entry i of the first is the size of the all-map's molecule set of
\* parameter i, entry i of the second the size of the outlier map's, or 0 when
\* the parameter is absent from the outlier map; absence raises no error.
C6_CountMolsByParam ==
    /\ mpc # "KeyError"
    /\ mpc = "counted" =>
          /\ Len(nmols_cnt_all) = Len(full_params)
          /\ Len(nmols_cnt_out) = Len(full_params)
          /\ \A i \in 1..Len(full_params) :
                /\ nmols_cnt_all[i] = Cardinality(params_id_all[full_params[i]])
                /\ nmols_cnt_out[i] =
                      IF full_params[i] \in DOMAIN params_id_out
                      THEN Cardinality(params_id_out[full_params[i]])
                      ELSE 0

\* a parameter absent from the outlier map was counted, beside one present
C6_Witness ==
    /\ mpc = "counted"
    /\ \E i \in 1..Len(full_params) :
          full_params[i] \notin DOMAIN params_id_out /\ nmols_cnt_out[i] = 0
    /\ \E i \in 1..Len(full_params) : nmols_cnt_out[i] >= 1

\* C8: every surviving parameter whose leading character is one of a, b, i,
\* n, t is passed to exactly one of the five plot_by_paramtype calls, the one
\* of its leading character; no parameter is in more than one plot; within a
\* plot the labels and ratios keep the order of the parameter list and label
\* k is paired with its own ratio.
C8_CategoryPartition ==
    mpc = "done" =>
        /\ Len(plots) = Len(PlotTypes)
        /\ \A k \in 1..Len(plots) :
              /\ plots[k].prefix = PlotTypes[k]
              /\ plots[k].labels =
                    KeepIdx(full_params, { i \in 1..Len(full_params) :
                                              full_params[i][1] = PlotTypes[k] })
              /\ Len(plots[k].plot_data) = Len(plots[k].labels)
              /\ \A j \in 1..Len(plots[k].labels) :
                    \E i \in 1..Len(full_params) :
                       /\ full_params[i] = plots[k].labels[j]
                       /\ plots[k].plot_data[j] = fraction_ratio[i]
        /\ \A i \in 1..Len(full_params) :
              full_params[i][1] \in Range(PlotTypes) =>
                 Cardinality({ k \in 1..Len(plots) :
                                  full_params[i] \in Range(plots[k].labels) }) = 1
        /\ \A i \in 1..Len(full_params) :
              Cardinality({ k \in 1..Len(plots) :
                               full_params[i] \in Range(plots[k].labels) }) <= 1

\* one parameter of each category and one of none have been routed
C8_Witness ==
    /\ mpc = "done"
    /\ full_params = <<a1, b2, c1, i5, n4, t3>>
    /\ \A k \in 1..Len(plots) : Len(plots[k].labels) = 1

\* two parameters of one category with different ratios share a plot
C8_WitnessSamePlot ==
    /\ mpc = "done"
    /\ plots[1].labels = <<a2, a10>>
    /\ ~FloatLeq(plots[1].plot_data[1], plots[1].plot_data[2])

\* C9: the data file lists every parameter of the all-set before filtering:
\* header, the NA_total row (unique outlier total, then unique all total),
\* then one row per key of params_id_all in natural-sort order with the
\* outlier count, then the all count; parameters removed by step 2 or step 3
\* stay in the file.
C9_DataFilePreFilter ==
    Written =>
        /\ Len(data_file) = 2 + Cardinality(DOMAIN params_id_all)
        /\ data_file[1] = Header
        /\ data_file[2] = <<"NA_total", uniq_n_out, uniq_n_all>>
        /\ Range(Listed) = DOMAIN params_id_all
        /\ \A i, j \in 1..Len(Listed) :
              i < j =>
                 \/ Ord(Listed[i][1]) < Ord(Listed[j][1])
                 \/ /\ Listed[i][1] = Listed[j][1]
                    /\ IndexOf(Listed[i]) < IndexOf(Listed[j])
        /\ \A k \in 1..Len(Listed) :
              /\ data_file[k + 2][2] = UsedByOut(Listed[k])
              /\ data_file[k + 2][3] = UsedByAll(Listed[k])

\* the file still lists a parameter removed by step 2 and one removed by step 3
C9_Witness ==
    /\ mpc = "done"
    /\ \E i \in 1..Len(Listed) : SingleInBoth(Listed[i])
    /\ \E i \in 1..Len(Listed) : ~SingleInBoth(Listed[i]) /\ UsedByOut(Listed[i]) = 0
    /\ Len(full_params) < Len(Listed)
    /\ uniq_n_out # uniq_n_all

-----------------------------------------------------------------------------
(* main of minimize_ffs.py *)

MaxMinMols == 2
MaxMinConfs == 2

Minimizers == {"ffxml", "mmff94", "mmff94s", "gaff", "gaff2"}

\* What the backend reports for one conformer: "ok"; "fail", the failure it
\* reports to the caller (szOpt returns False; run_antechamber raises inside
\* the try block; openforcefield raises inside the try block); "raise", an
\* exception outside any try block (run_tleap, parmed, run_openmm).
Outcomes(m) ==
    IF m \in {"mmff94", "mmff94s"} THEN {"ok", "fail"} ELSE {"ok", "fail", "raise"}

\* the conformer lists of the molecules of the input file
MolLists ==
    UNION { [1..n -> 1..MaxMinConfs] : n \in 0..MaxMinMols }

PreviousContent == << [conf |-> <<0, 0>>, tag |-> "previous run"] >>

InitMin ==
    /\ npc = "open"
    /\ minimizer \in Minimizers
    /\ infile_ok \in BOOLEAN
    /\ outfile_ok \in BOOLEAN
    /\ outfile \in { [exists |-> FALSE, content |-> <<>>],
                     [exists |-> TRUE,  content |-> PreviousContent] }
    /\ mols \in MolLists
    /\ mi = 0
    /\ cj = 0
    /\ charge_attempts = [m \in 1..Len(mols) |-> 0]
    /\ results = <<>>
    /\ log = <<>>
    /\ IdleT
    /\ IdleS
    /\ IdleM
    /\ IdleG

\* the state of the loops after the conformers of molecule m: the next
\* molecule, or the end of "for i, mol in enumerate(mols)"
AfterMol(m) ==
    IF m < Len(mols)
    THEN /\ mi' = m + 1
         /\ cj' = 0
         /\ npc' = "charge"
    ELSE /\ npc' = "close"
         /\ UNCHANGED <<mi, cj>>

\* lines 275-287 without the os.path.exists(outfile) test
OpenFilesOverwrite ==
    /\ npc = "open"
    /\ IF ~infile_ok
       THEN npc' = "FileNotFoundError" /\ UNCHANGED <<outfile, mi, cj>>
       ELSE IF ~outfile_ok
       THEN npc' = "Fatal" /\ UNCHANGED <<outfile, mi, cj>>
       ELSE /\ outfile' = [exists |-> TRUE, content |-> <<>>]
            /\ AfterMol(0)
    /\ UNCHANGED <<minimizer, infile_ok, outfile_ok, mols, charge_attempts, results, log>>
    /\ UNCHANGED <<varsT, varsS, varsM, varsG>>

\* lines 275-287
OpenFiles ==
    /\ npc = "open"
    /\ IF ~infile_ok
       THEN npc' = "FileNotFoundError" /\ UNCHANGED <<outfile, mi, cj>>
       ELSE IF outfile.exists
       THEN npc' = "FileExistsError" /\ UNCHANGED <<outfile, mi, cj>>
       ELSE IF ~outfile_ok
       THEN npc' = "Fatal" /\ UNCHANGED <<outfile, mi, cj>>
       ELSE /\ outfile' = [exists |-> TRUE, content |-> <<>>]
            /\ AfterMol(0)
    /\ UNCHANGED <<minimizer, infile_ok, outfile_ok, mols, charge_attempts, results, log>>
    /\ UNCHANGED <<varsT, varsS, varsM, varsG>>

\* lines 290-301: the first charge_mol(mol) of an iteration
Charge(ok) ==
    /\ npc = "charge"
    /\ charge_attempts' = [charge_attempts EXCEPT ![mi] = @ + 1]
    /\ IF ok THEN npc' = "conf" /\ cj' = 1
             ELSE npc' = "retry" /\ UNCHANGED cj
    /\ UNCHANGED <<minimizer, infile_ok, outfile_ok, outfile, mols, mi, results, log>>
    /\ UNCHANGED <<varsT, varsS, varsM, varsG>>

\* the except branch without the "continue" after the second failure
RetryNoSkip(ok) ==
    /\ npc = "retry"
    /\ charge_attempts' = [charge_attempts EXCEPT ![mi] = @ + 1]
    /\ log' = Append(log, [msg |-> IF ok THEN "fixed stereo" ELSE "Charge assignment failed",
                           mol |-> mi, conf |-> 0])
    /\ npc' = "conf"
    /\ cj' = 1
    /\ UNCHANGED <<minimizer, infile_ok, outfile_ok, outfile, mols, mi, results>>
    /\ UNCHANGED <<varsT, varsS, varsM, varsG>>

\* lines 301-319: the except branch, charge_mol(mol) after the stereo fix
Retry(ok) ==
    /\ npc = "retry"
    /\ charge_attempts' = [charge_attempts EXCEPT ![mi] = @ + 1]
    /\ IF ok
       THEN /\ log' = Append(log, [msg |-> "fixed stereo", mol |-> mi, conf |-> 0])
            /\ npc' = "conf"
            /\ cj' = 1
            /\ UNCHANGED mi
       ELSE /\ log' = Append(log, [msg |-> "Charge assignment failed", mol |-> mi, conf |-> 0])
            /\ AfterMol(mi)
    /\ UNCHANGED <<minimizer, infile_ok, outfile_ok, outfile, mols, results>>
    /\ UNCHANGED <<varsT, varsS, varsM, varsG>>

\* min_mmff94x: the message is printed when szOpt fails; the energy tag is
\* set and the molecule written in either case (lines 126-133)
min_mmff94x(conf, outcome, mmff94s) ==
    [log     |-> IF outcome = "fail"
                 THEN << [msg |-> "MMFF94x minimization failed",
                          mol |-> conf[1], conf |-> conf[2]] >>
                 ELSE <<>>,
     written |-> << [conf |-> conf,
                     tag |-> IF mmff94s THEN "Energy MMFF94S" ELSE "Energy MMFF94"] >>,
     raised  |-> FALSE]

\* min_gaffx: run_antechamber raising is caught, printed, and the function
\* returns (lines 167-177); later exceptions propagate
min_gaffx(conf, outcome, gaff2) ==
    CASE outcome = "fail" ->
            [log     |-> << [msg |-> "Antechamber failed to produce GAFF mol2 file",
                             mol |-> conf[1], conf |-> conf[2]] >>,
             written |-> <<>>,
             raised  |-> FALSE]
      [] outcome = "raise" ->
            [log |-> <<>>, written |-> <<>>, raised |-> TRUE]
      [] outcome = "ok" ->
            [log     |-> <<>>,
             written |-> << [conf |-> conf,
                             tag |-> IF gaff2 THEN "Energy GAFF2" ELSE "Energy GAFF"] >>,
             raised  |-> FALSE]

\* min_ffxml: an exception while the OpenMM system is created is caught,
\* printed, and the function returns (lines 209-227); run_openmm raising
\* propagates
min_ffxml(conf, outcome) ==
    CASE outcome = "fail" ->
            [log     |-> << [msg |-> "openforcefield failed to create OpenMM system",
                             mol |-> conf[1], conf |-> conf[2]] >>,
             written |-> <<>>,
             raised  |-> FALSE]
      [] outcome = "raise" ->
            [log |-> <<>>, written |-> <<>>, raised |-> TRUE]
      [] outcome = "ok" ->
            [log     |-> <<>>,
             written |-> << [conf |-> conf, tag |-> "Energy FFXML"] >>,
             raised  |-> FALSE]

\* lines 329-347: the five "if minimizer == ..." statements
Dispatch(m, conf, outcome) ==
    CASE m = "ffxml"   -> min_ffxml(conf, outcome)
      [] m = "mmff94"  -> min_mmff94x(conf, outcome, FALSE)
      [] m = "mmff94s" -> min_mmff94x(conf, outcome, TRUE)
      [] m = "gaff"    -> min_gaffx(conf, outcome, FALSE)
      [] m = "gaff2"   -> min_gaffx(conf, outcome, TRUE)

\* lines 321-347: one iteration of "for j, conf in enumerate(mol.GetConfs())"
Minimize(outcome) ==
    /\ npc = "conf"
    /\ outcome \in Outcomes(minimizer)
    /\ \E r \in { Dispatch(minimizer, <<mi, cj>>, outcome) } :
          /\ outfile' = [outfile EXCEPT !.content = @ \o r.written]
          /\ log' = log \o r.log
          /\ results' = Append(results, [mol |-> mi, conf |-> cj, outcome |-> outcome])
          /\ IF r.raised
             THEN npc' = "raised" /\ UNCHANGED <<mi, cj>>
             ELSE IF cj < mols[mi]
             THEN cj' = cj + 1 /\ UNCHANGED <<npc, mi>>
             ELSE AfterMol(mi)
    /\ UNCHANGED <<minimizer, infile_ok, outfile_ok, mols, charge_attempts>>
    /\ UNCHANGED <<varsT, varsS, varsM, varsG>>

\* lines 349-350
Close ==
    /\ npc = "close"
    /\ npc' = "done"
    /\ UNCHANGED <<minimizer, infile_ok, outfile_ok, outfile, mols, mi, cj,
                   charge_attempts, results, log>>
    /\ UNCHANGED <<varsT, varsS, varsM, varsG>>

NextMin ==
    \/ OpenFiles
    \/ \E ok \in BOOLEAN : Charge(ok)
    \/ \E ok \in BOOLEAN : Retry(ok)
    \/ \E outcome \in {"ok", "fail", "raise"} : Minimize(outcome)
    \/ Close

SpecMin == InitMin /\ [][NextMin]_vars

-----------------------------------------------------------------------------
(* Claims about the minimizer *)

Logged(r) == \E k \in 1..Len(log) : log[k].mol = r.mol /\ log[k].conf = r.conf
RecordOf(r) == { k \in 1..Len(outfile.content) : outfile.content[k].conf = <<r.mol, r.conf>> }

\* C10: whenever the minimization engine reports failure for a conformer, for
\* every backend, the failure is logged, no record of that conformer is
\* written to the output file, and processing continues with the next
\* conformer or molecule.
C10_FailureWritesNoRecord ==
    \A k \in 1..Len(results) :
        results[k].outcome = "fail" =>
            /\ Logged(results[k])
            /\ RecordOf(results[k]) = {}
            /\ (k = Len(results) => npc \in {"conf", "charge", "retry", "close", "done"})

\* the charge messages printed for molecule m
ChargeLog(m, msg) == { k \in 1..Len(log) : log[k].mol = m /\ log[k].conf = 0 /\ log[k].msg = msg }

\* molecules whose charge assignment is over: charged or skipped
ChargeSettled(m) == m < mi \/ (m = mi /\ npc \in {"conf", "close", "done", "raised"})

\* C11: charge assignment is attempted at most twice per molecule; a first
\* attempt that succeeds is not followed by a retry; a molecule whose retry
\* fails too is logged, none of its conformers is minimized or written, and
\* the loop goes on to the next molecule instead of aborting.
C11_ChargeRetryOnce ==
    \A m \in 1..Len(mols) :
        /\ charge_attempts[m] <= 2
        /\ (m = mi /\ npc = "retry") => charge_attempts[m] = 1
        /\ ChargeSettled(m) =>
              \/ /\ charge_attempts[m] = 1
                 /\ ChargeLog(m, "fixed stereo") = {}
                 /\ ChargeLog(m, "Charge assignment failed") = {}
              \/ /\ charge_attempts[m] = 2
                 /\ Cardinality(ChargeLog(m, "fixed stereo")
                                \cup ChargeLog(m, "Charge assignment failed")) = 1
        /\ ChargeLog(m, "Charge assignment failed") # {} =>
              /\ charge_attempts[m] = 2
              /\ \A k \in 1..Len(results) : results[k].mol # m
              /\ \A k \in 1..Len(outfile.content) : outfile.content[k].conf[1] # m
              /\ (m = mi => npc \in {"close", "done"})
              /\ (m < mi => npc # "open")

\* the first molecule was skipped after two failed attempts and a conformer
\* of the second, charged at the first attempt, was written
C11_Witness ==
    /\ Len(mols) = 2
    /\ ChargeLog(1, "Charge assignment failed") # {}
    /\ charge_attempts = <<2, 1>>
    /\ \E k \in 1..Len(outfile.content) : outfile.content[k].conf[1] = 2

\* nothing has been charged, minimized, written or printed
NothingProcessed ==
    /\ \A m \in 1..Len(mols) : charge_attempts[m] = 0
    /\ results = <<>>
    /\ log = <<>>

\* C12 as stated: if the output file exists or the input file cannot be
\* opened, main fails with a file-not-found condition before any molecule is
\* charged, minimized or written, and an existing output file is unchanged.
C12_FileNotFoundInBothCases ==
    [][ (npc = "open" /\ (outfile.exists \/ ~infile_ok)) =>
            /\ npc' = "FileNotFoundError"
            /\ outfile' = outfile
            /\ NothingProcessed' ]_vars

\* C12: if the input file cannot be opened main raises FileNotFoundError; if
\* it can and the output file exists main raises FileExistsError; in both
\* cases no molecule has been or will be charged, minimized or written and an
\* existing output file is unchanged.
C12_RefusesOverwrite ==
    /\ [][ npc = "open" =>
              /\ (~infile_ok => npc' = "FileNotFoundError")
              /\ (infile_ok /\ outfile.exists => npc' = "FileExistsError")
              /\ ((outfile.exists \/ ~infile_ok) => outfile' = outfile) ]_vars
    /\ [](npc \in {"FileNotFoundError", "FileExistsError"} =>
              /\ NothingProcessed
              /\ (outfile.exists => outfile.content = PreviousContent))

\* main has refused to overwrite an existing output file
C12_Witness ==
    /\ npc = "FileExistsError"
    /\ infile_ok
    /\ outfile = [exists |-> TRUE, content |-> PreviousContent]
    /\ Len(mols) > 0

\* ---- lockstep filtering in the analyzer's main ----

FractionsDone == mpc \in {"fractions", "step2", "step3", "plot", "done", "ValueError"}

\* C13 as stated: nmols_cnt_all, nmols_cnt_out, fraction_cnt_all,
\* fraction_cnt_out and fraction_ratio (once computed) have equal length at
\* every stage of main.
C13_FiveVectorsEqualLength ==
    /\ FractionsDone =>
          /\ Len(nmols_cnt_out) = Len(nmols_cnt_all)
          /\ Len(fraction_cnt_all) = Len(nmols_cnt_all)
          /\ Len(fraction_cnt_out) = Len(nmols_cnt_all)
    /\ RatioDone => Len(fraction_ratio) = Len(nmols_cnt_all)

\* C13: step 2 and step 3 each remove one common set of indices from
\* fraction_cnt_all, fraction_cnt_out and the parameter list, so these (and
\* fraction_ratio once computed) have equal length at every stage; the two
\* count vectors nmols_cnt_all and nmols_cnt_out are never filtered and keep
\* the length of the pre-filter parameter list.
C13_FractionsInLockstep ==
    /\ [][ (mpc = "fractions" \/ mpc = "step2") =>
            ( /\ \E I \in SUBSET (1..Len(fraction_cnt_all)) :
                    /\ fraction_cnt_all' = KeepIdx(fraction_cnt_all, I)
                    /\ fraction_cnt_out' = KeepIdx(fraction_cnt_out, I)
                    /\ full_params' = KeepIdx(full_params, I)
              /\ nmols_cnt_all' = nmols_cnt_all
              /\ nmols_cnt_out' = nmols_cnt_out ) ]_vars
    /\ [](FractionsDone =>
              /\ Len(fraction_cnt_out) = Len(fraction_cnt_all)
              /\ Len(nmols_cnt_out) = Len(nmols_cnt_all)
              /\ Len(nmols_cnt_all) = Len(Listed)
              /\ Len(fraction_cnt_all) <= Len(nmols_cnt_all))
    /\ [](RatioDone => Len(fraction_ratio) = Len(fraction_cnt_all))

\* both steps have removed an index from the fractions and the count vectors
\* still have their pre-filter length
C13_Witness ==
    /\ mpc = "plot"
    /\ Len(nmols_cnt_all) = 3
    /\ Len(nmols_cnt_out) = 3
    /\ Len(fraction_cnt_all) = 1
    /\ Len(fraction_cnt_out) = 1
    /\ Len(AfterStep2) = 2

-----------------------------------------------------------------------------
(* SpecG: the duplicate removal of get_parameters.  Positions are counted  *)
(* from 1 here and from 0 in the source.                                   *)

MaxDedupMols == 4

\* what to_smiles() can return
CanonicalSmiles == {"A", "B", "C"}

\* lines 93-105: off_mols holds one molecule per key of mols_dict, in the
\* dict's order, and iso_smiles the canonical SMILES of each
InitG ==
    /\ gpc = "smiles"
    /\ \E n \in 0..MaxDedupMols :
          /\ iso_smiles \in [1..n -> CanonicalSmiles]
          /\ off_mols = [i \in 1..n |-> i]
    /\ smi_dict = EmptyDict
    /\ idx_todo = <<>>
    /\ IdleT
    /\ IdleS
    /\ IdleM
    /\ IdleN

\* dict(zip(ks, vs)) on top of d
RECURSIVE DictZip(_, _, _)
DictZip(d, ks, vs) ==
    IF ks = <<>> \/ vs = <<>> THEN d
    ELSE DictZip(DictSet(d, Head(ks), Head(vs)), Tail(ks), Tail(vs))

\* mols_dict.keys(): the key of each molecule is named by its position
smi_list(n) == [i \in 1..n |-> i]

\* lines 106-107
BuildSmiDict ==
    /\ gpc = "smiles"
    /\ smi_dict' = DictZip(EmptyDict, iso_smiles, smi_list(Len(iso_smiles)))
    /\ gpc' = "dups"
    /\ UNCHANGED <<iso_smiles, idx_todo, off_mols>>
    /\ UNCHANGED <<varsT, varsS, varsM, varsN>>

\* [idx for idx, item in enumerate(iso_smiles) if item in iso_smiles[:idx]]
idx_of_duplicates(smiles) ==
    IdxArray({ idx \in 1..Len(smiles) : \E j \in 1..(idx - 1) : smiles[j] = smiles[idx] },
             Len(smiles))

RECURSIVE SortedUp(_)
SortedUp(S) ==
    IF S = {} THEN <<>>
    ELSE LET m == CHOOSE x \in S : \A y \in S : x <= y
         IN  <<m>> \o SortedUp(S \ {m})

RECURSIVE SortedDown(_)
SortedDown(S) ==
    IF S = {} THEN <<>>
    ELSE LET m == CHOOSE x \in S : \A y \in S : x >= y
         IN  <<m>> \o SortedDown(S \ {m})

\* sorted(idx) without reverse=True
sorted_forward(idx) == SortedUp(Range(idx))

\* sorted(idx, reverse=True)
sorted_reverse(idx) == SortedDown(Range(idx))

\* lines 110-111, up to the first iteration
FindDuplicates ==
    /\ gpc = "dups"
    /\ idx_todo' = sorted_reverse(idx_of_duplicates(iso_smiles))
    /\ gpc' = "delete"
    /\ UNCHANGED <<iso_smiles, smi_dict, off_mols>>
    /\ UNCHANGED <<varsT, varsS, varsM, varsN>>

\* del list[index]
Del(list, index) ==
    [k \in 1..(Len(list) - 1) |-> IF k < index THEN list[k] ELSE list[k + 1]]

\* line 112: one iteration of the removal loop; an index past the end of
\* the list raises IndexError
DeleteNext ==
    /\ gpc = "delete"
    /\ idx_todo # <<>>
    /\ IF Head(idx_todo) > Len(off_mols)
       THEN gpc' = "IndexError" /\ UNCHANGED <<idx_todo, off_mols>>
       ELSE /\ off_mols' = Del(off_mols, Head(idx_todo))
            /\ idx_todo' = Tail(idx_todo)
            /\ UNCHANGED gpc
    /\ UNCHANGED <<iso_smiles, smi_dict>>
    /\ UNCHANGED <<varsT, varsS, varsM, varsN>>

\* the loop is over; lines 115-119 use off_mols and return smi_dict
LoopEnd ==
    /\ gpc = "delete"
    /\ idx_todo = <<>>
    /\ gpc' = "done"
    /\ UNCHANGED <<iso_smiles, smi_dict, idx_todo, off_mols>>
    /\ UNCHANGED <<varsT, varsS, varsM, varsN>>

NextG == BuildSmiDict \/ FindDuplicates \/ DeleteNext \/ LoopEnd

SpecG == InitG /\ [][NextG]_vars

-----------------------------------------------------------------------------
(* Claim about get_parameters *)

\* the positions whose SMILES does not occur at an earlier position
FirstOccurrences ==
    { i \in 1..Len(iso_smiles) : \A j \in 1..(i - 1) : iso_smiles[j] # iso_smiles[i] }

\* C14: after the removal loop off_mols holds exactly the molecules whose
\* canonical SMILES does not occur earlier in the list, in their original
\* order; every deletion, taken from the highest index to the lowest, hits
\* the molecule it was computed for and none is out of range; the result has
\* one molecule per distinct canonical SMILES, as many as smi_dict has keys.
C14_Deduplication ==
    /\ gpc # "IndexError"
    /\ (gpc = "delete" /\ idx_todo # <<>>) =>
          /\ Head(idx_todo) <= Len(off_mols)
          /\ off_mols[Head(idx_todo)] = Head(idx_todo)
          /\ Head(idx_todo) \notin FirstOccurrences
    /\ gpc = "done" =>
          /\ off_mols = IdxArray(FirstOccurrences, Len(iso_smiles))
          /\ \A x \in Range(iso_smiles) :
                Cardinality({ k \in 1..Len(off_mols) : iso_smiles[off_mols[k]] = x }) = 1
          /\ Len(off_mols) = Cardinality(Range(iso_smiles))
          /\ Len(off_mols) = Len(smi_dict.keys)
          /\ Keys(smi_dict) = Range(iso_smiles)

\* two later occurrences, one of them not adjacent, have been removed
C14_Witness ==
    /\ gpc = "done"
    /\ iso_smiles = <<"A", "B", "A", "A">>
    /\ off_mols = <<1, 2>>
    /\ Len(smi_dict.keys) = 2

=============================================================================
